---- MODULE Spec2Model ----
(***************************************************************************)
(* A model of dump.py: the generic tree walker (Visitor), the declaration *)
(* extractor (HeaderVisitor), the record constructors, the two alias       *)
(* canonicalizers, the parameter type resolver, the enum emitter and the   *)
(* control flow of main().                                                 *)
(*                                                                         *)
(* Names that the program inspects character by character (lower(),        *)
(* startswith(), replace(), the `in` substring test) are sequences of      *)
(* one-character strings.  Names that are only compared or concatenated    *)
(* as a whole (type spellings in the parameter resolver) are plain strings.*)
(***************************************************************************)
EXTENDS Integers, Sequences, FiniteSets, TLC

VARIABLES
    tree,        \* the AST: node id -> cursor record (read-only)
    visitor,     \* class of the visitor object whose visit() runs
    stack,       \* call stack of Visitor.visit: frames [node, at, idx]
    log,         \* history of process()/end() calls, in call order
    indent,      \* PrintVisitor.indent
    enums,       \* HeaderVisitor.enums
    functions,   \* HeaderVisitor.functions
    typedefs,    \* HeaderVisitor.typedefs
    argv,        \* sys.argv
    pc,          \* position of main()
    out,         \* lines printed so far
    extracted,   \* the three lists as the walk left them (history)
    alias,       \* local `alias` of HeaderVisitor.canonical / `tp` of canonical_type
    typemap,     \* the dict handed to canonical_type
    start,       \* the name canonical was called with (history)
    hops,        \* number of lookup hops made by the running canonical call (history)
    fcur,        \* FunctionDecl.__init__: the children of its cursor
    ci,          \* FunctionDecl.__init__: index of the child the for loop is at
    loc,         \* FunctionDecl.__init__: the locals tp, dtype, prtcount
    args,        \* FunctionDecl.__init__: self.args
    pointees,    \* get_pointee() calls made for the current parameter (history)
    decls,       \* main: decls["enum"], a list of [decl, tp, members]
    members,     \* main: the local `enums`, the list make_enums returned
    ei           \* main: index of the for loop of lines 291-293

walkVars == <<tree, visitor, stack, log, indent, enums, functions, typedefs>>
paramVars == <<fcur, ci, loc, args, pointees>>
emitVars == <<decls, members, ei>>
restVars == <<paramVars, emitVars>>
mainVars == <<argv, restVars, pc, out, extracted>>
canonVars == <<alias, typemap, start, hops>>

(***************************************************************************)
(* Strings as sequences of characters.                                     *)
(***************************************************************************)
UpperChars == <<"A","B","C","D","E","F","G","H","I","J","K","L","M",
                "N","O","P","Q","R","S","T","U","V","W","X","Y","Z">>
LowerChars == <<"a","b","c","d","e","f","g","h","i","j","k","l","m",
                "n","o","p","q","r","s","t","u","v","w","x","y","z">>

\* str.lower() on one character
LowerChar(c) ==
    IF \E i \in 1..Len(UpperChars) : UpperChars[i] = c
    THEN LowerChars[CHOOSE i \in 1..Len(UpperChars) : UpperChars[i] = c]
    ELSE c

\* str.upper() on one character
UpperChar(c) ==
    IF \E i \in 1..Len(LowerChars) : LowerChars[i] = c
    THEN UpperChars[CHOOSE i \in 1..Len(LowerChars) : LowerChars[i] = c]
    ELSE c

Lower(s) == [i \in 1..Len(s) |-> LowerChar(s[i])]
Upper(s) == [i \in 1..Len(s) |-> UpperChar(s[i])]

\* s.startswith(p)
StartsWith(s, p) == Len(p) <= Len(s) /\ SubSeq(s, 1, Len(p)) = p

\* p occurs in s at position i
OccursAt(s, p, i) == i + Len(p) - 1 <= Len(s) /\ SubSeq(s, i, i + Len(p) - 1) = p

\* p in s
Contains(s, p) == \E i \in 1..(Len(s) + 1) : OccursAt(s, p, i)

\* s.replace(old, "") for a non-empty old: every non-overlapping occurrence,
\* found left to right, is removed
RECURSIVE Remove(_, _)
Remove(s, old) ==
    IF s = <<>> THEN <<>>
    ELSE IF OccursAt(s, old, 1)
         THEN Remove(SubSeq(s, Len(old) + 1, Len(s)), old)
         ELSE <<Head(s)>> \o Remove(Tail(s), old)

(***************************************************************************)
(* The cursor abstraction of the front-end.                                *)
(*   kind        CursorKind.name, as its underscore-separated words        *)
(*   spelling, displayname   character sequences                           *)
(*   children    node ids, in the order get_children() reports them        *)
(*   tkind       cursor.type.get_canonical().kind.spelling.lower()         *)
(*   etype       cursor.enum_type.get_canonical().kind.spelling.lower()    *)
(*   evalue      cursor.enum_value                                         *)
(*   ptype       cursor.type.get_canonical(), see the type records below   *)
(***************************************************************************)
KTU == <<"TRANSLATION", "UNIT">>
KNamespace == <<"NAMESPACE">>
KTypeRef == <<"TYPE", "REF">>
KStruct == <<"STRUCT", "DECL">>
KEnum == <<"ENUM", "DECL">>
KFunction == <<"FUNCTION", "DECL">>
KTypedef == <<"TYPEDEF", "DECL">>
KParm == <<"PARM", "DECL">>
KEnumConstant == <<"ENUM", "CONSTANT", "DECL">>

\* cursor.kind.name.endswith("DECL")
EndsWithDECL(kind) == kind[Len(kind)] = "DECL"

(***************************************************************************)
(* Canonical types as the front-end reports them: ptr pointer layers       *)
(* around a terminal type of kind `kind` whose Type.spelling is `spelling`.*)
(***************************************************************************)
InvalidType == [ptr |-> 0, kind |-> "invalid", spelling |-> ""]
PrimType(k) == [ptr |-> 0, kind |-> k, spelling |-> k]
EnumType(name) == [ptr |-> 0, kind |-> "enum", spelling |-> name]
PointerTo(tp) == [tp EXCEPT !.ptr = @ + 1]

\* tp.kind.spelling.lower()
KindSpelling(tp) == IF tp.ptr > 0 THEN "pointer" ELSE tp.kind

\* tp.get_pointee(): the pointee of a pointer, the invalid type of anything else
GetPointee(tp) == IF tp.ptr > 0 THEN [tp EXCEPT !.ptr = @ - 1] ELSE InvalidType

\* tp.get_typedef_name(): empty for a type that is not a typedef
GetTypedefName(tp) == IF tp.ptr = 0 /\ tp.kind = "typedef" THEN tp.spelling ELSE ""

extra == {"pointer", "enum", "typedef"}

\* lines 63-66: the loop's state on entry
LoopEntry(tp) == [tp |-> tp, dtype |-> KindSpelling(tp), prtcount |-> 0]

\* lines 68-75 with the pointer branch forgetting to count
LoopBodyMutantNoCount(st) ==
    IF st.dtype = "enum" THEN [st EXCEPT !.dtype = st.tp.spelling]
    ELSE IF st.dtype = "pointer"
         THEN [tp |-> GetPointee(st.tp),
               dtype |-> KindSpelling(GetPointee(st.tp)),
               prtcount |-> st.prtcount]
         ELSE [st EXCEPT !.dtype = GetTypedefName(st.tp)]

\* lines 68-75: one iteration of `while dtype in extra`
LoopBody(st) ==
    IF st.dtype = "enum" THEN [st EXCEPT !.dtype = st.tp.spelling]
    ELSE IF st.dtype = "pointer"
         THEN [tp |-> GetPointee(st.tp),
               dtype |-> KindSpelling(GetPointee(st.tp)),
               prtcount |-> st.prtcount + 1]
         ELSE [st EXCEPT !.dtype = GetTypedefName(st.tp)]

\* "*" * n
Stars(n) == [i \in 1..n |-> "*"]

\* line 78: dtype + "*" * prtcount, as the base type followed by its marks
Descriptor(st) == <<st.dtype>> \o Stars(st.prtcount)

\* lines 67-75 run to completion
RECURSIVE RunLoop(_)
RunLoop(st) == IF st.dtype \in extra THEN RunLoop(LoopBody(st)) ELSE st

(***************************************************************************)
(* The record constructors.                                                *)
(***************************************************************************)
Void == <<"v", "o", "i", "d">>

\* the children of node n, as cursor records
Kids(t, n) == [i \in 1..Len(t[n].children) |-> t[t[n].children[i]]]

\* [f(c) for c in cs if c.kind == k]
RECURSIVE OfKind(_, _)
OfKind(cs, k) ==
    IF cs = <<>> THEN <<>>
    ELSE (IF Head(cs).kind = k THEN <<Head(cs)>> ELSE <<>>) \o OfKind(Tail(cs), k)

\* EnumDecl.__init__
EnumDeclInit(t, n) ==
    LET cs == OfKind(Kids(t, n), KEnumConstant) IN
    [name |-> t[n].displayname,
     dtype |-> t[n].etype,
     members |-> [i \in 1..Len(cs) |-> [name |-> cs[i].displayname, value |-> cs[i].evalue]]]

\* FunctionDecl.__init__
FunctionDeclInit(t, n) ==
    LET cs == OfKind(Kids(t, n), KParm) IN
    [name |-> t[n].spelling,
     dtype |-> IF Kids(t, n) # <<>> THEN Kids(t, n)[1].spelling ELSE Void,
     args |-> [i \in 1..Len(cs) |->
                 [dtype |-> Descriptor(RunLoop(LoopEntry(cs[i].ptype))),
                  name |-> cs[i].displayname]]]

\* TypedefDecl.__init__
TypedefDeclInit(t, n) ==
    [name |-> t[n].spelling,
     alias |-> IF Kids(t, n) # <<>> /\ t[n].tkind = <<"e", "n", "u", "m">>
               THEN Kids(t, n)[1].displayname
               ELSE t[n].tkind]

(***************************************************************************)
(* Visitor.visit, one call frame per active visit(cursor):                 *)
(*   at = "process"   the frame is about to call self.process(cursor)      *)
(*   at = "children"  the frame is in the for loop, idx the next child     *)
(***************************************************************************)
Top == stack[Len(stack)]
Popped == SubSeq(stack, 1, Len(stack) - 1)
Frame(n) == [node |-> n, at |-> "process", idx |-> 1]

\* Visitor.process
VisitorProcess(c) == TRUE

\* HeaderVisitor.process returning True after recording an enum
HeaderProcessMutantEnterEnum(c) ==
    IF ~EndsWithDECL(c.kind) THEN TRUE
    ELSE IF c.kind = KEnum THEN TRUE
    ELSE IF c.kind = KFunction THEN FALSE
    ELSE IF c.kind = KTypedef THEN FALSE
    ELSE TRUE

\* HeaderVisitor.process, its return value
HeaderProcess(c) ==
    IF ~EndsWithDECL(c.kind) THEN TRUE
    ELSE IF c.kind = KEnum THEN FALSE
    ELSE IF c.kind = KFunction THEN FALSE
    ELSE IF c.kind = KTypedef THEN FALSE
    ELSE TRUE

\* the values self.process(cursor) can return, by the class of self; "Subclass"
\* is a subclass of Visitor whose process() is any policy at all
ProcessReturns(c) ==
    CASE visitor = "Visitor" -> {VisitorProcess(c)}
      [] visitor = "PrintVisitor" -> {TRUE}
      [] visitor = "HeaderVisitor" -> {HeaderProcess(c)}
      [] visitor = "Subclass" -> BOOLEAN

\* what visit() does with the result of process(): descend on True only
EntersMutantAlways(r) == TRUE
Enters(r) == r

\* line 13: self.process(cursor), and the return of visit() when it is False
Process ==
    /\ stack # <<>>
    /\ Top.at = "process"
    /\ LET n == Top.node
           c == tree[n]
       IN \E r \in ProcessReturns(c) :
            /\ log' = Append(log, [ev |-> "process", node |-> n, ret |-> r])
            /\ enums' = IF visitor = "HeaderVisitor" /\ EndsWithDECL(c.kind) /\ c.kind = KEnum
                        THEN Append(enums, EnumDeclInit(tree, n)) ELSE enums
            /\ functions' = IF visitor = "HeaderVisitor" /\ EndsWithDECL(c.kind) /\ c.kind = KFunction
                            THEN Append(functions, FunctionDeclInit(tree, n)) ELSE functions
            /\ typedefs' = IF visitor = "HeaderVisitor" /\ EndsWithDECL(c.kind) /\ c.kind = KTypedef
                           THEN Append(typedefs, TypedefDeclInit(tree, n)) ELSE typedefs
            /\ indent' = IF visitor = "PrintVisitor" THEN indent + 1 ELSE indent
            /\ out' = IF visitor = "PrintVisitor"
                      THEN Append(out, [block |-> "ast",
                                        text |-> <<Stars(indent), c.kind, c.displayname>>])
                      ELSE out
            /\ stack' = IF Enters(r)
                        THEN [stack EXCEPT ![Len(stack)].at = "children"]
                        ELSE Popped
    /\ UNCHANGED <<tree, visitor, argv, restVars, pc, extracted>>
    /\ UNCHANGED canonVars

\* lines 14-15: the next child of the for loop is visited
Descend ==
    /\ stack # <<>>
    /\ Top.at = "children"
    /\ Top.idx <= Len(tree[Top.node].children)
    /\ stack' = Append([stack EXCEPT ![Len(stack)].idx = @ + 1],
                       Frame(tree[Top.node].children[Top.idx]))
    /\ UNCHANGED <<tree, visitor, log, indent, enums, functions, typedefs>>
    /\ UNCHANGED mainVars
    /\ UNCHANGED canonVars

\* line 16: the for loop is exhausted, self.end(cursor) runs and visit() returns
End ==
    /\ stack # <<>>
    /\ Top.at = "children"
    /\ Top.idx > Len(tree[Top.node].children)
    /\ log' = Append(log, [ev |-> "end", node |-> Top.node, ret |-> TRUE])
    /\ indent' = IF visitor = "PrintVisitor" THEN indent - 1 ELSE indent
    /\ stack' = Popped
    /\ UNCHANGED <<tree, visitor, enums, functions, typedefs>>
    /\ UNCHANGED mainVars
    /\ UNCHANGED canonVars

(***************************************************************************)
(* Trees for the walker: every tree of at most MaxNodes nodes (node i > 1  *)
(* hangs under some node below i; siblings are reported in id order), the  *)
(* kind of every node but the root drawn from WalkKinds.                   *)
(***************************************************************************)
MaxNodes == 4

Digits == <<"1", "2", "3", "4", "5", "6", "7", "8", "9">>
NodeName(i) == <<"n", Digits[i]>>
WalkKinds == {KNamespace, KStruct, KEnum, KFunction, KTypedef, KEnumConstant, KParm}
IntName == <<"i", "n", "t">>

RECURSIVE Ascending(_)
Ascending(S) ==
    IF S = {} THEN <<>>
    ELSE LET m == CHOOSE x \in S : \A y \in S : x <= y
         IN <<m>> \o Ascending(S \ {m})

WalkTree(n, par, kind) ==
    [i \in 1..n |->
       [kind |-> IF i = 1 THEN KTU ELSE kind[i],
        spelling |-> NodeName(i),
        displayname |-> NodeName(i),
        children |-> Ascending({j \in 2..n : par[j] = i}),
        tkind |-> IntName,
        etype |-> IntName,
        evalue |-> i,
        ptype |-> PointerTo(PrimType("int"))]]

\* tree is one of the trees of at most MaxNodes nodes with kinds drawn from kinds
IsWalkTree(kinds) ==
    \E n \in 1..MaxNodes :
      \E par \in [2..n -> 1..n] :
        /\ \A j \in 2..n : par[j] < j
        /\ \E kind \in [2..n -> kinds] : tree = WalkTree(n, par, kind)

NoLists == [typedefs |-> <<>>, enums |-> <<>>, functions |-> <<>>]

ParamIdle ==
    /\ fcur = <<>>
    /\ ci = 1
    /\ loc = LoopEntry(InvalidType)
    /\ args = <<>>
    /\ pointees = 0

EmitIdle ==
    /\ decls = <<>>
    /\ members = <<>>
    /\ ei = 1

MainIdle ==
    /\ ParamIdle
    /\ EmitIdle
    /\ argv = <<>>
    /\ pc = "visit"
    /\ out = <<>>
    /\ extracted = NoLists

CanonIdle ==
    /\ alias = <<>>
    /\ typemap = <<>>
    /\ start = <<>>
    /\ hops = 0

\* a visitor object right after construction, visit(root) just called
Init ==
    /\ \/ /\ visitor = "HeaderVisitor"
          /\ IsWalkTree(WalkKinds)
       \/ /\ visitor \in {"Visitor", "PrintVisitor", "Subclass"}
          /\ IsWalkTree({KNamespace})
    /\ stack = <<Frame(1)>>
    /\ log = <<>>
    /\ indent = 0
    /\ enums = <<>>
    /\ functions = <<>>
    /\ typedefs = <<>>
    /\ MainIdle
    /\ CanonIdle

vars == <<tree, visitor, stack, log, indent, enums, functions, typedefs,
          argv, pc, out, extracted, alias, typemap, start, hops,
          fcur, ci, loc, args, pointees, decls, members, ei>>

Next == Process \/ Descend \/ End

\* a running visit() keeps running: Python executes the next statement
Spec == Init /\ [][Next]_vars /\ WF_vars(Next)

(***************************************************************************)
(* Reading the history of a walk.                                          *)
(***************************************************************************)
Processed(n) == \E i \in 1..Len(log) : log[i].ev = "process" /\ log[i].node = n

\* what process(n) returned the first time it was called
Decision(n) ==
    log[CHOOSE i \in 1..Len(log) :
          /\ log[i].ev = "process" /\ log[i].node = n
          /\ \A j \in 1..(i - 1) : ~(log[j].ev = "process" /\ log[j].node = n)].ret

RECURSIVE Flatten(_)
Flatten(ss) == IF ss = <<>> THEN <<>> ELSE Head(ss) \o Flatten(Tail(ss))

\* the calls a depth-first walk of the subtree at n makes, given the decisions:
\* decide(n); if true the walks of the children in order, then after(n)
RECURSIVE ExpectedLog(_)
ExpectedLog(n) ==
    IF ~Processed(n) THEN <<[ev |-> "never", node |-> n, ret |-> FALSE]>>
    ELSE <<[ev |-> "process", node |-> n, ret |-> Decision(n)]>>
         \o (IF Decision(n)
             THEN Flatten([i \in 1..Len(tree[n].children) |->
                              ExpectedLog(tree[n].children[i])])
                  \o <<[ev |-> "end", node |-> n, ret |-> TRUE]>>
             ELSE <<>>)

WalkDone == stack = <<>>

\* C1: a visit of a finite tree terminates, and the calls it made are exactly:
\* decide(node) first; when true, the visits of the children in reported order and
\* then after(node); when false, nothing below node and no after(node)
C1_DepthFirstWalk == <>[](WalkDone /\ log = ExpectedLog(1))

\* a finished walk under an arbitrary policy that refused a node with children and
\* entered a node with two children
C1_Witness ==
    /\ WalkDone
    /\ visitor = "Subclass"
    /\ \E n \in DOMAIN tree :
         Processed(n) /\ ~Decision(n) /\ tree[n].children # <<>>
    /\ \E n \in DOMAIN tree :
         Processed(n) /\ Decision(n) /\ Len(tree[n].children) >= 2

(***************************************************************************)
(* The declaration extractor.                                              *)
(***************************************************************************)
IsDeclRecordKind(k) == k \in {KTypedef, KEnum, KFunction}

ParentOf(n) == CHOOSE q \in DOMAIN tree : \E i \in 1..Len(tree[q].children) : tree[q].children[i] = n

\* n lies beneath a typedef, enum or function declaration
RECURSIVE Nested(_)
Nested(n) ==
    /\ n # 1
    /\ \/ IsDeclRecordKind(tree[ParentOf(n)].kind)
       \/ Nested(ParentOf(n))

RECURSIVE PreOrder(_)
PreOrder(n) ==
    <<n>> \o Flatten([i \in 1..Len(tree[n].children) |-> PreOrder(tree[n].children[i])])

\* the nodes of kind k with no typedef/enum/function ancestor, in document order
Outermost(k) ==
    LET Test(n) == tree[n].kind = k /\ ~Nested(n)
    IN SelectSeq(PreOrder(1), Test)

\* C9: the extractor calls process() only on nodes with no typedef/enum/function
\* ancestor and descends exactly when the node is not itself one of those; after the
\* walk each list holds one record per outermost declaration, in document order,
\* and every un-nested node was processed
C9_ExtractOutermost ==
    visitor = "HeaderVisitor" =>
      /\ \A i \in 1..Len(log) :
            log[i].ev = "process" =>
               /\ ~Nested(log[i].node)
               /\ log[i].ret = ~IsDeclRecordKind(tree[log[i].node].kind)
      /\ WalkDone =>
            /\ typedefs = [i \in 1..Len(Outermost(KTypedef)) |->
                             TypedefDeclInit(tree, Outermost(KTypedef)[i])]
            /\ enums = [i \in 1..Len(Outermost(KEnum)) |->
                          EnumDeclInit(tree, Outermost(KEnum)[i])]
            /\ functions = [i \in 1..Len(Outermost(KFunction)) |->
                              FunctionDeclInit(tree, Outermost(KFunction)[i])]
            /\ \A n \in DOMAIN tree : ~Nested(n) => Processed(n)

\* a finished extraction of a tree holding a declaration nested under a function or
\* typedef, an outermost enum, and a declaration under a node that is descended into
C9_Witness ==
    /\ visitor = "HeaderVisitor"
    /\ WalkDone
    /\ \E n \in DOMAIN tree : Nested(n) /\ IsDeclRecordKind(tree[n].kind)
    /\ \E n \in DOMAIN tree :
         n # 1 /\ ~Nested(n) /\ IsDeclRecordKind(tree[n].kind) /\ ParentOf(n) # 1

(***************************************************************************)
(* main().  The header is whatever tree the front-end returns for it; the  *)
(* trees tried are a translation unit with at most MaxDecls top-level      *)
(* declarations drawn from HeaderDecls.                                    *)
(***************************************************************************)
MaxDecls == 3
MaxHops == 4

Cufft == <<"c", "u", "f", "f", "t">>
CufftResult == <<"c", "u", "f", "f", "t", "R", "e", "s", "u", "l", "t">>
EnumName == <<"e", "n", "u", "m">>
ResTag == <<"_", "r", "e", "s">>
CufftPlan == <<"c", "u", "f", "f", "t", "P", "l", "a", "n">>
CUFFTExec == <<"C", "U", "F", "F", "T", "E", "x", "e", "c">>
MyCufftHelper == <<"m", "y", "_", "c", "u", "f", "f", "t", "H">>
CufftType == <<"c", "u", "f", "f", "t", "T", "y", "p", "e">>
CublasOp == <<"c", "u", "b", "l", "a", "s", "O", "p">>
Cublas == <<"c", "u", "b", "l", "a", "s">>
Libs == {Cufft, Upper(Cufft), Cublas}

Leaf(kind, name, value, tp) ==
    [kind |-> kind, spelling |-> name, displayname |-> name, kids |-> <<>>,
     tkind |-> IntName, etype |-> IntName, evalue |-> value, ptype |-> tp]

Decl(kind, name, tkind, kids) ==
    [kind |-> kind, spelling |-> name, displayname |-> name, kids |-> kids,
     tkind |-> tkind, etype |-> IntName, evalue |-> 0, ptype |-> PrimType("int")]

HeaderDecls ==
    { \* typedef enum _res { ... } cufftResult;
      Decl(KTypedef, CufftResult, EnumName, <<Leaf(KEnum, ResTag, 0, PrimType("int"))>>),
      \* typedef int _res;
      Decl(KTypedef, ResTag, IntName, <<>>),
      \* typedef enum cufftResult { ... } cufftResult;
      Decl(KTypedef, CufftResult, EnumName, <<Leaf(KEnum, CufftResult, 0, PrimType("int"))>>),
      \* enum cufftType { CUFFT_R2C = 42 };
      Decl(KEnum, CufftType, IntName,
           <<Leaf(KEnumConstant, <<"C", "U", "F", "F", "T", "_", "R">>, 42, PrimType("int"))>>),
      \* enum cublasOp { };
      Decl(KEnum, CublasOp, IntName, <<>>),
      \* int cufftPlan(int *p);
      Decl(KFunction, CufftPlan, IntName,
           <<Leaf(KParm, <<"p">>, 0, PointerTo(PrimType("int")))>>),
      \* void CUFFTExec();
      Decl(KFunction, CUFFTExec, IntName, <<>>),
      \* void my_cufftH();
      Decl(KFunction, MyCufftHelper, IntName, <<>>) }

RECURSIVE SeqsUpTo(_, _)
SeqsUpTo(S, n) ==
    IF n = 0 THEN {<<>>}
    ELSE LET shorter == SeqsUpTo(S, n - 1)
         IN shorter \cup {Append(q, x) : q \in {r \in shorter : Len(r) = n - 1}, x \in S}

RECURSIVE KidsBefore(_, _)
KidsBefore(items, i) ==
    IF i <= 1 THEN 0 ELSE KidsBefore(items, i - 1) + Len(items[i - 1].kids)

Cursor(item, children) ==
    [kind |-> item.kind, spelling |-> item.spelling, displayname |-> item.displayname,
     children |-> children, tkind |-> item.tkind, etype |-> item.etype,
     evalue |-> item.evalue, ptype |-> item.ptype]

\* the translation unit whose top-level declarations are items: node 1 is the
\* root, nodes 2..k+1 the declarations, their children follow
TreeOf(items) ==
    LET k == Len(items)
        base(i) == k + 1 + KidsBefore(items, i)
        total == base(k + 1)
        owner(id) == CHOOSE i \in 1..k : base(i) < id /\ id <= base(i) + Len(items[i].kids)
    IN [id \in 1..total |->
          IF id = 1
          THEN [kind |-> KTU, spelling |-> <<"h">>, displayname |-> <<"h">>,
                children |-> [i \in 1..k |-> i + 1], tkind |-> IntName,
                etype |-> IntName, evalue |-> 0, ptype |-> InvalidType]
          ELSE IF id <= k + 1
          THEN Cursor(items[id - 1],
                      [j \in 1..Len(items[id - 1].kids) |-> base(id - 1) + j])
          ELSE Cursor(items[owner(id)].kids[id - base(owner(id))], <<>>)]

Line(block, text) == [block |-> block, text |-> text]

Lists == [typedefs |-> typedefs, enums |-> enums, functions |-> functions]

\* line 247: the predicate handed to filter()
FilterCond(obj) == StartsWith(Lower(obj.name), Cufft)

\* lines 229-231
Usage ==
    /\ pc = "start"
    /\ Len(argv) < 3
    /\ out' = Append(out, Line("usage", <<argv[1]>>))
    /\ pc' = "exited"
    /\ UNCHANGED <<argv, restVars, extracted>>
    /\ UNCHANGED walkVars
    /\ UNCHANGED canonVars

\* lines 232-246, up to the call of h.visit(tu.cursor)
Parse ==
    /\ pc = "start"
    /\ Len(argv) >= 3
    /\ visitor' = "HeaderVisitor"
    /\ enums' = <<>>
    /\ functions' = <<>>
    /\ typedefs' = <<>>
    /\ stack' = <<Frame(1)>>
    /\ pc' = "visit"
    /\ UNCHANGED <<tree, log, indent, argv, restVars, out, extracted>>
    /\ UNCHANGED canonVars

\* line 247, HeaderVisitor.filter: the three attributes are rebound to the kept
\* elements
Filter ==
    /\ pc = "visit"
    /\ stack = <<>>
    /\ extracted' = Lists
    /\ enums' = SelectSeq(enums, FilterCond)
    /\ functions' = SelectSeq(functions, FilterCond)
    /\ typedefs' = SelectSeq(typedefs, FilterCond)
    /\ pc' = "print_enums"
    /\ UNCHANGED <<tree, visitor, stack, log, indent, argv, restVars, out>>
    /\ UNCHANGED canonVars

RECURSIVE EnumLines(_)
EnumLines(es) ==
    IF es = <<>> THEN <<>>
    ELSE <<Line("enums", <<Head(es).name, Head(es).dtype>>)>>
         \o [i \in 1..Len(Head(es).members) |->
               Line("enums", <<Head(es).members[i].name, Head(es).members[i].value>>)]
         \o EnumLines(Tail(es))

RECURSIVE FunctionLines(_)
FunctionLines(fs) ==
    IF fs = <<>> THEN <<>>
    ELSE (IF Contains(Head(fs).name, Cufft)
          THEN <<Line("functions", <<Head(fs).name, Head(fs).dtype>>)>>
               \o [i \in 1..Len(Head(fs).args) |->
                     Line("functions", <<Head(fs).args[i].dtype, Head(fs).args[i].name>>)]
          ELSE <<>>)
         \o FunctionLines(Tail(fs))

RECURSIVE TypedefLines(_)
TypedefLines(ts) ==
    IF ts = <<>> THEN <<>>
    ELSE (IF Contains(Head(ts).name, Cufft)
          THEN <<Line("typedefs", <<Head(ts).name, Head(ts).alias>>)>>
          ELSE <<>>)
         \o TypedefLines(Tail(ts))

\* lines 248-252
PrintEnums ==
    /\ pc = "print_enums"
    /\ out' = out \o <<Line("enums", <<"#">>)>> \o EnumLines(enums)
    /\ pc' = "print_functions"
    /\ UNCHANGED <<argv, restVars, extracted>>
    /\ UNCHANGED walkVars
    /\ UNCHANGED canonVars

\* lines 253-258; the header string starts with a newline
PrintFunctions ==
    /\ pc = "print_functions"
    /\ out' = out \o <<Line("blank", <<>>), Line("functions", <<"#">>)>>
                  \o FunctionLines(functions)
    /\ pc' = "print_typedefs"
    /\ UNCHANGED <<argv, restVars, extracted>>
    /\ UNCHANGED walkVars
    /\ UNCHANGED canonVars

\* lines 259-264
PrintTypedefs ==
    /\ pc = "print_typedefs"
    /\ out' = out \o <<Line("blank", <<>>), Line("typedefs", <<"#">>)>>
                  \o TypedefLines(typedefs) \o <<Line("blank", <<>>)>>
    /\ pc' = "call_canonical"
    /\ UNCHANGED <<argv, restVars, extracted>>
    /\ UNCHANGED walkVars
    /\ UNCHANGED canonVars

\* [t.alias for t in self.typedefs if t.name == alias]
RECURSIVE AliasesOf(_, _)
AliasesOf(ts, name) ==
    IF ts = <<>> THEN <<>>
    ELSE (IF Head(ts).name = name THEN <<Head(ts).alias>> ELSE <<>>)
         \o AliasesOf(Tail(ts), name)

Hop == IF hops < MaxHops THEN hops + 1 ELSE hops

\* line 265 calls h.canonical("cufftResult"); lines 120-121
CanonicalCall ==
    /\ pc = "call_canonical"
    /\ alias' = CufftResult
    /\ start' = CufftResult
    /\ hops' = 0
    /\ pc' = "canonical"
    /\ UNCHANGED <<argv, restVars, out, extracted, typemap>>
    /\ UNCHANGED walkVars

\* the loop test of HeaderVisitor.canonical, line 122
CanonicalLoopsMutantOnce(tmp) == Len(tmp) # 0 /\ hops = 0
CanonicalLoops(tmp) == Len(tmp) # 0

\* lines 122-124: one iteration of the while loop
CanonicalStep ==
    /\ pc = "canonical"
    /\ CanonicalLoops(AliasesOf(typedefs, alias))
    /\ alias' = AliasesOf(typedefs, alias)[1]
    /\ hops' = Hop
    /\ UNCHANGED <<typemap, start>>
    /\ UNCHANGED mainVars
    /\ UNCHANGED walkVars

\* line 125, and the print of line 265
CanonicalReturn ==
    /\ pc = "canonical"
    /\ ~CanonicalLoops(AliasesOf(typedefs, alias))
    /\ out' = Append(out, Line("canonical", <<alias>>))
    /\ pc' = "exit"
    /\ UNCHANGED <<argv, restVars, extracted>>
    /\ UNCHANGED canonVars
    /\ UNCHANGED walkVars

\* line 266
Exit ==
    /\ pc = "exit"
    /\ pc' = "exited"
    /\ UNCHANGED <<argv, restVars, out, extracted>>
    /\ UNCHANGED canonVars
    /\ UNCHANGED walkVars

InitMain ==
    /\ tree \in {TreeOf(items) : items \in SeqsUpTo(HeaderDecls, MaxDecls)}
    /\ argv \in {<<<<"dump.py">>>>} \cup {<<<<"dump.py">>, lib>> : lib \in Libs}
                \cup {<<<<"dump.py">>, lib, <<"h">>>> : lib \in Libs}
    /\ ParamIdle
    /\ EmitIdle
    /\ pc = "start"
    /\ out = <<>>
    /\ extracted = NoLists
    /\ visitor = "none"
    /\ stack = <<>>
    /\ log = <<>>
    /\ indent = 0
    /\ enums = <<>>
    /\ functions = <<>>
    /\ typedefs = <<>>
    /\ CanonIdle

NextMain ==
    \/ Usage \/ Parse
    \/ Process \/ Descend \/ End
    \/ Filter
    \/ PrintEnums \/ PrintFunctions \/ PrintTypedefs
    \/ CanonicalCall \/ CanonicalStep \/ CanonicalReturn
    \/ Exit

\* the interpreter keeps executing main()
SpecMain == InitMain /\ [][NextMain]_vars /\ WF_vars(NextMain)

(***************************************************************************)
(* Statements about main().                                                *)
(***************************************************************************)
Filtered == Len(argv) >= 3 /\ pc \notin {"start", "visit"}

\* C3: run with library token L (argv[1]), the filter keeps a typedef, enum or
\* function exactly when its case-folded name contains case-folded L anywhere, list
\* by list, the kept elements in their original order
C3_FilterKeepsSubstring ==
    Filtered =>
      LET Keep(obj) == Contains(Lower(obj.name), Lower(argv[2]))
      IN /\ typedefs = SelectSeq(extracted.typedefs, Keep)
         /\ enums = SelectSeq(extracted.enums, Keep)
         /\ functions = SelectSeq(extracted.functions, Keep)

\* C4: after filter() the visitor still holds the three sequences the walk
\* produced, unchanged
C4_FilterNonDestructive == Filtered => Lists = extracted

\* the alias chain of name through the typedef list ts, first match first, leaves
\* the typedef names within Len(ts) hops
RECURSIVE ListIterate(_, _, _)
ListIterate(ts, name, k) ==
    IF k = 0 \/ AliasesOf(ts, name) = <<>> THEN name
    ELSE ListIterate(ts, AliasesOf(ts, name)[1], k - 1)

ListAcyclic(ts, name) == AliasesOf(ts, ListIterate(ts, name, Len(ts))) = <<>>

\* C8: the name canonical() returns after filtering is the terminal type of the
\* alias chain through the full, unfiltered typedef list
C8_CanonicalUsesUnfiltered ==
    (Len(argv) >= 3 /\ pc \in {"exit", "exited"} /\ ListAcyclic(extracted.typedefs, start)) =>
        alias = ListIterate(extracted.typedefs, start, Len(extracted.typedefs))

RECURSIVE Collapse(_)
Collapse(bs) ==
    IF Len(bs) <= 1 THEN bs
    ELSE IF bs[1] = bs[2] THEN Collapse(Tail(bs))
    ELSE <<bs[1]>> \o Collapse(Tail(bs))

Blocks == [i \in 1..Len(out) |-> out[i].block]

\* C6: a run with both arguments has written, when it terminates, the typedef
\* section, a blank line, the enum section, a blank line and the function section,
\* in that order; a run with fewer prints the usage message and processes nothing
C6_ThreeSectionsInOrder ==
    pc = "exited" =>
      IF Len(argv) >= 3
      THEN Collapse(Blocks) = <<"typedefs", "blank", "enums", "blank", "functions">>
      ELSE Blocks = <<"usage">> /\ log = <<>> /\ Lists = NoLists

(***************************************************************************)
(* The two canonicalizers on their own: HeaderVisitor.canonical over any   *)
(* list of at most MaxTypedefs typedef records, canonical_type over any    *)
(* dict, names and targets drawn from TypeNames.                           *)
(***************************************************************************)
MaxTypedefs == 2

TypeNames == {<<"A">>, <<"B">>, <<"C">>}
TypeTargets == TypeNames \cup {IntName}

\* the loop test of canonical_type, line 205
InTypemapMutantOnce(tp) == tp \in DOMAIN typemap /\ hops = 0
InTypemap(tp) == tp \in DOMAIN typemap

\* line 206: one iteration of the while loop of canonical_type
CanonicalTypeStep ==
    /\ pc = "canonical_type"
    /\ InTypemap(alias)
    /\ alias' = typemap[alias]
    /\ hops' = Hop
    /\ UNCHANGED <<typemap, start>>
    /\ UNCHANGED mainVars
    /\ UNCHANGED walkVars

\* line 207
CanonicalTypeReturn ==
    /\ pc = "canonical_type"
    /\ ~InTypemap(alias)
    /\ pc' = "returned"
    /\ UNCHANGED <<argv, restVars, out, extracted>>
    /\ UNCHANGED canonVars
    /\ UNCHANGED walkVars

InitCanon ==
    /\ start \in TypeTargets
    /\ alias = start
    /\ hops = 0
    /\ \/ /\ pc = "canonical"
          /\ typedefs \in SeqsUpTo([name : TypeNames, alias : TypeTargets], MaxTypedefs)
          /\ typemap = <<>>
       \/ /\ pc = "canonical_type"
          /\ typemap \in UNION {[keys -> TypeTargets] : keys \in SUBSET TypeNames}
          /\ typedefs = <<>>
    /\ tree = <<>>
    /\ visitor = "HeaderVisitor"
    /\ stack = <<>>
    /\ log = <<>>
    /\ indent = 0
    /\ enums = <<>>
    /\ functions = <<>>
    /\ ParamIdle
    /\ EmitIdle
    /\ argv = <<>>
    /\ out = <<>>
    /\ extracted = NoLists

NextCanon == CanonicalStep \/ CanonicalReturn \/ CanonicalTypeStep \/ CanonicalTypeReturn

\* a running loop keeps running
SpecCanon == InitCanon /\ [][NextCanon]_vars /\ WF_vars(NextCanon)

\* following the dict m from name for at most k hops
RECURSIVE DictIterate(_, _, _)
DictIterate(m, name, k) ==
    IF k = 0 \/ name \notin DOMAIN m THEN name ELSE DictIterate(m, m[name], k - 1)

DictAcyclic(m, name) == DictIterate(m, name, Cardinality(DOMAIN m)) \notin DOMAIN m

\* the number of links of the chain from name to the first value that is no key
DictChainLength(m, name) ==
    CHOOSE k \in 0..Cardinality(DOMAIN m) :
        /\ DictIterate(m, name, k) \notin DOMAIN m
        /\ \A j \in 0..(k - 1) : DictIterate(m, name, j) \in DOMAIN m

ListChainLength(ts, name) ==
    CHOOSE k \in 0..Len(ts) :
        /\ AliasesOf(ts, ListIterate(ts, name, k)) = <<>>
        /\ \A j \in 0..(k - 1) : AliasesOf(ts, ListIterate(ts, name, j)) # <<>>

UsesDict == pc \in {"canonical_type", "returned"}
CanonReturned == pc \in {"returned", "exit"}
ChainAcyclic == IF UsesDict THEN DictAcyclic(typemap, start) ELSE ListAcyclic(typedefs, start)

\* C2: on a chain without a cycle canonical returns a value that is no key of the
\* map, namely the end of the chain, after as many hops as the chain has links
\* (none, and the name itself, when the name is no key)
C2_CanonicalFixedPoint ==
    (CanonReturned /\ ChainAcyclic) =>
       IF UsesDict
       THEN /\ alias \notin DOMAIN typemap
            /\ hops = DictChainLength(typemap, start)
            /\ alias = DictIterate(typemap, start, hops)
            /\ start \notin DOMAIN typemap => hops = 0 /\ alias = start
       ELSE /\ \A i \in 1..Len(typedefs) : typedefs[i].name # alias
            /\ hops = ListChainLength(typedefs, start)
            /\ alias = ListIterate(typedefs, start, hops)
            /\ AliasesOf(typedefs, start) = <<>> => hops = 0 /\ alias = start

\* canonical_type returned after following a chain of three links
C2_Witness ==
    /\ pc = "returned"
    /\ DictAcyclic(typemap, start)
    /\ hops = 3
    /\ alias = IntName

\* C10: canonical returns exactly when the chain from the name reaches no cycle:
\* without a cycle it returns, with one it loops for ever
C10_TerminatesIffAcyclic ==
    /\ [](ChainAcyclic => <>CanonReturned)
    /\ [](~ChainAcyclic => ~CanonReturned)

\* a lookup on a cyclic chain that is still looping after MaxHops hops
C10_Witness ==
    /\ ~ChainAcyclic
    /\ hops = MaxHops
    /\ pc \in {"canonical", "canonical_type"}

(***************************************************************************)
(* FunctionDecl.__init__, the loop over the children (lines 61-79), on its *)
(* own: any function cursor with at most MaxChildren children, each a      *)
(* parameter of a canonical type with at most MaxPointerDepth pointer      *)
(* layers or a child of another kind.  A canonical type is never a         *)
(* typedef.  The enum spelled "pointer" is the C++ declaration             *)
(* `enum pointer { ... }`, whose Type.spelling is one of the loop's tags.  *)
(***************************************************************************)
MaxChildren == 3
MaxPointerDepth == 2

TerminalTypes == {PrimType("int"), EnumType("cufftType"), EnumType("pointer")}
ParamTypes == {[t EXCEPT !.ptr = d] : t \in TerminalTypes, d \in 0..MaxPointerDepth}
FunctionChildren ==
    {[kind |-> KParm, displayname |-> <<"p">>, ptype |-> t] : t \in ParamTypes}
    \cup {[kind |-> KTypeRef, displayname |-> <<"r">>, ptype |-> InvalidType]}

\* lines 61-66: the for loop takes its next child; a parameter enters the while loop
ParamNext ==
    /\ pc = "for"
    /\ ci <= Len(fcur)
    /\ IF fcur[ci].kind = KParm
       THEN /\ loc' = LoopEntry(fcur[ci].ptype)
            /\ pointees' = 0
            /\ pc' = "while"
            /\ ci' = ci
       ELSE /\ ci' = ci + 1
            /\ UNCHANGED <<loc, pointees, pc>>
    /\ UNCHANGED <<fcur, args, emitVars, argv, out, extracted>>
    /\ UNCHANGED walkVars
    /\ UNCHANGED canonVars

\* lines 67-75: one iteration of the while loop
ParamLoop ==
    /\ pc = "while"
    /\ loc.dtype \in extra
    /\ loc' = LoopBody(loc)
    /\ pointees' = IF loc.dtype = "pointer" THEN pointees + 1 ELSE pointees
    /\ UNCHANGED <<fcur, ci, args, emitVars, argv, pc, out, extracted>>
    /\ UNCHANGED walkVars
    /\ UNCHANGED canonVars

\* lines 77-79: the while loop has ended; assert, build the Arg, append it
ParamAppend ==
    /\ pc = "while"
    /\ loc.dtype \notin extra
    /\ IF loc.dtype = ""
       THEN /\ pc' = "AssertionError"
            /\ UNCHANGED <<args, ci>>
       ELSE /\ args' = Append(args, [dtype |-> Descriptor(loc), name |-> fcur[ci].displayname])
            /\ ci' = ci + 1
            /\ pc' = "for"
    /\ UNCHANGED <<fcur, loc, pointees, emitVars, argv, out, extracted>>
    /\ UNCHANGED walkVars
    /\ UNCHANGED canonVars

\* the for loop is exhausted and __init__ returns
ParamDone ==
    /\ pc = "for"
    /\ ci > Len(fcur)
    /\ pc' = "constructed"
    /\ UNCHANGED <<paramVars, emitVars, argv, out, extracted>>
    /\ UNCHANGED walkVars
    /\ UNCHANGED canonVars

InitParam ==
    /\ fcur \in SeqsUpTo(FunctionChildren, MaxChildren)
    /\ ci = 1
    /\ loc = LoopEntry(InvalidType)
    /\ args = <<>>
    /\ pointees = 0
    /\ pc = "for"
    /\ EmitIdle
    /\ argv = <<>>
    /\ out = <<>>
    /\ extracted = NoLists
    /\ tree = <<>>
    /\ visitor = "HeaderVisitor"
    /\ stack = <<>>
    /\ log = <<>>
    /\ indent = 0
    /\ enums = <<>>
    /\ functions = <<>>
    /\ typedefs = <<>>
    /\ CanonIdle

NextParam == ParamNext \/ ParamLoop \/ ParamAppend \/ ParamDone

\* the interpreter keeps executing the constructor
SpecParam == InitParam /\ [][NextParam]_vars /\ WF_vars(NextParam)

\* the spelling of the type under the pointer layers is not itself a tag
PlainlyNamed(tp) == ~(tp.kind = "enum" /\ tp.spelling \in extra)

\* the base type of tp and one mark per pointer layer of tp
LayeredDescriptor(tp) ==
    <<IF tp.kind = "enum" THEN tp.spelling ELSE tp.kind>> \o Stars(tp.ptr)

\* the parameters among the children the for loop has finished with
ParamsDone == OfKind(SubSeq(fcur, 1, ci - 1), KParm)

ResolvedSoFar ==
    /\ pc # "AssertionError"
    /\ pc = "while" => loc.prtcount = pointees
    /\ Len(args) = Len(ParamsDone)
    /\ \A i \in 1..Len(args) :
          LET d == args[i].dtype
              tp == ParamsDone[i].ptype
          IN /\ args[i].name = ParamsDone[i].displayname
             /\ d[1] # "" /\ d[1] \notin extra
             /\ \A j \in 2..Len(d) : d[j] = "*"
             /\ PlainlyNamed(tp) => d = LayeredDescriptor(tp)
             /\ tp = PointerTo(PrimType("int")) => d = <<"int", "*">>

\* C5: for every parameter the loop ends with a non-empty base type that is no tag;
\* the descriptor appended is that base type followed by one mark per get_pointee
\* step (one per pointer layer of the type), int* giving "int", 1, "int*"; the
\* descriptors are appended in the order of the parameters
C5_ParameterResolved ==
    /\ []ResolvedSoFar
    /\ [][(pc = "while" /\ pc' = "for") =>
             args' = Append(args, [dtype |-> <<loc.dtype>> \o Stars(pointees),
                                   name |-> fcur[ci].displayname])]_vars
    /\ <>(pc = "constructed")

\* a constructed record whose parameters followed a child of another kind and
\* include int** and an enum
C5_Witness ==
    /\ pc = "constructed"
    /\ Len(fcur) = 3
    /\ fcur[1].kind = KTypeRef
    /\ Len(args) = 2
    /\ args[1].dtype = <<"int", "*", "*">>
    /\ args[2].dtype = <<"cufftType">>

(***************************************************************************)
(* The enumeration block of the emitter: make_enums (lines 195-201) and    *)
(* the prints of lines 290-294, on any decls["enum"] of at most MaxEnums   *)
(* entries drawn from CapturedEnums, for the library token argv[1].        *)
(***************************************************************************)
MaxEnums == 3

LibToken == <<"l", "i", "b">>
LIB_OK == <<"L", "I", "B", "_", "O", "K">>
LIB_FAIL == <<"L", "I", "B", "_", "F", "A", "I", "L">>
NO_LIB_X == <<"N", "O", "_", "L", "I", "B", "_", "X">>
LIB_LIB_Y == <<"L", "I", "B", "_", "L", "I", "B", "_", "Y">>
Lib_z == <<"l", "i", "b", "_", "z">>

\* [decl, tp, members], members a list of [displayname, enum_value]
CapturedEnums ==
    { <<<<"l", "i", "b", "S">>, IntName, <<<<LIB_OK, 0>>, <<LIB_FAIL, 1>>>>>>,
      <<<<"l", "i", "b", "T">>, IntName, <<<<NO_LIB_X, 5>>>>>>,
      <<<<"l", "i", "b", "U">>, IntName, <<<<LIB_LIB_Y, 7>>, <<Lib_z, 7>>>>>>,
      <<<<"l", "i", "b", "V">>, IntName, <<>>>> }

\* make_enums: the members of every enum, enum after enum
RECURSIVE MakeEnums(_)
MakeEnums(src) ==
    IF src = <<>> THEN <<>> ELSE Head(src)[3] \o MakeEnums(Tail(src))

\* line 293: e[0].replace(lib.upper() + "_", "")
PublicName(name, lib) == Remove(name, Upper(lib) \o <<"_">>)

\* line 278
CallMakeEnums ==
    /\ pc = "make_enums"
    /\ members' = MakeEnums(decls)
    /\ pc' = "print_enum_header"
    /\ UNCHANGED <<decls, ei, paramVars, argv, out, extracted>>
    /\ UNCHANGED walkVars
    /\ UNCHANGED canonVars

\* line 290
PrintEnumHeader ==
    /\ pc = "print_enum_header"
    /\ out' = Append(out, Line("enums", <<"cpdef enum:">>))
    /\ ei' = 1
    /\ pc' = "print_enum_lines"
    /\ UNCHANGED <<decls, members, paramVars, argv, extracted>>
    /\ UNCHANGED walkVars
    /\ UNCHANGED canonVars

\* lines 291-293: one iteration of the for loop
PrintEnumLine ==
    /\ pc = "print_enum_lines"
    /\ ei <= Len(members)
    /\ out' = Append(out, Line("enums", <<PublicName(members[ei][1], argv[2]), members[ei][2]>>))
    /\ ei' = ei + 1
    /\ UNCHANGED <<decls, members, paramVars, argv, pc, extracted>>
    /\ UNCHANGED walkVars
    /\ UNCHANGED canonVars

\* line 294
PrintEnumBlank ==
    /\ pc = "print_enum_lines"
    /\ ei > Len(members)
    /\ out' = Append(out, Line("blank", <<>>))
    /\ pc' = "enums_emitted"
    /\ UNCHANGED <<emitVars, paramVars, argv, extracted>>
    /\ UNCHANGED walkVars
    /\ UNCHANGED canonVars

InitEmit ==
    /\ decls \in SeqsUpTo(CapturedEnums, MaxEnums)
    /\ members = <<>>
    /\ ei = 1
    /\ argv \in {<<<<"dump.py">>, lib, <<"h">>>> : lib \in {LibToken, Upper(LibToken)}}
    /\ pc = "make_enums"
    /\ ParamIdle
    /\ out = <<>>
    /\ extracted = NoLists
    /\ tree = <<>>
    /\ visitor = "none"
    /\ stack = <<>>
    /\ log = <<>>
    /\ indent = 0
    /\ enums = <<>>
    /\ functions = <<>>
    /\ typedefs = <<>>
    /\ CanonIdle

NextEmit == CallMakeEnums \/ PrintEnumHeader \/ PrintEnumLine \/ PrintEnumBlank

SpecEmit == InitEmit /\ [][NextEmit]_vars /\ WF_vars(NextEmit)

\* name without a leading prefix, untouched when it does not start with it
StripLeading(name, prefix) ==
    IF StartsWith(name, prefix) THEN SubSeq(name, Len(prefix) + 1, Len(name)) ELSE name

\* every captured member, enums in order, members in order
RECURSIVE CapturedMembers(_)
CapturedMembers(src) ==
    IF src = <<>> THEN <<>>
    ELSE [i \in 1..Len(Head(src)[3]) |-> Head(src)[3][i]] \o CapturedMembers(Tail(src))

\* the lines of the enumeration block, without its header and closing blank line
EnumBlock == [i \in 1..(Len(out) - 2) |-> out[i + 1].text]

\* C7: the enumeration block holds one line per captured member, in declaration
\* order, the name with only a leading "<LIBRARY_UPPER>_" removed and the value
\* as the parser reported it
C7_EnumBlockStripsLeadingPrefix ==
    pc = "enums_emitted" =>
       LET ms == CapturedMembers(decls)
       IN EnumBlock = [i \in 1..Len(ms) |->
                          <<StripLeading(ms[i][1], Upper(argv[2]) \o <<"_">>), ms[i][2]>>]
====
